---- MODULE Spec2Model ----
(***************************************************************************)
(* A model of the oompa request/reply library: the websocket client        *)
(* (src/client.js: pending table, timeout agents, reconnect agents, drain  *)
(* agent, the `opened` latch) and the server dispatcher                    *)
(* (src/unnamed/part_002, src/index.js).                                   *)
(*                                                                         *)
(* Every action is one turn of the JavaScript event loop: one timer tick,  *)
(* one socket event or one API call, together with the promise reactions   *)
(* (microtasks) it makes runnable.  Time is abstracted: a timer may fire   *)
(* at any turn in which it is armed.                                       *)
(***************************************************************************)
EXTENDS Integers, FiniteSets, Sequences, TLC

\* ---------------------------------------------------------------- bounds
MaxReq == 2        \* dispatch calls made by the application
MaxSock == 3       \* websocket objects created over the run
Attempts == 2      \* the `attempts` option given to the client
MaxSrvReq == 2     \* requests the server receives
MaxCon == 2        \* connections the server accepts
MaxMid == 2        \* middlewares registered with use()
MaxPush == 3       \* push() calls made by the application
MaxTask == 5       \* run() calls made on the pool
Concurrency == 2   \* the pool's `concurrency` argument
MaxQueued == 2     \* the pool's `maxQueued` argument
MaxPing == 2       \* ping() calls made by the application
MaxHttp == 1       \* HTTP requests made to the server
MaxBad == 1        \* frames received that are not JSON

\* ---------------------------------------------------- program constants
CLOSE_ABNORMAL == 1006
SERVER_SHUTTING_OFF == 1000
GOING_AWAY == 1001

\* Reconnect agents created over the run: each one that gets anywhere needs
\* a socket of its own besides the constructor's.
MaxAgents == MaxSock - 1

Req == 1..MaxReq
Sock == 1..MaxSock
Agent == 1..MaxAgents
CloseCodes == {SERVER_SHUTTING_OFF, GOING_AWAY, CLOSE_ABNORMAL}
ReplyTypes == {"OK", "ERR"}
\* types a non-PUSH message can carry: OK, ERR, or anything else
FrameTypes == ReplyTypes \cup {"OTHER"}
SReq == 1..MaxSrvReq
SCon == 1..MaxCon

VARIABLES
  sock,       \* readyState of every websocket object
  started,    \* sockets on which start() armed the close/message listeners
  closedBy,   \* how a started socket was closed: "none", "remote" (by the
              \* server), "drain" or "user" (by the client, with GOING_AWAY),
              \* "lost" (closed by the client, the connection then broke: 1006)
  hostClosed, \* sockets whose close made the client emit 'host-closed'
  client,     \* this.client: the current socket, 0 for null
  opened,     \* whether the current `_opened` promise is fulfilled
  drainOn,    \* whether the drain interval (this._agent) is running
  userClosed, \* whether close() has been called
  agents,     \* the state objects of attemptReconnect
  phase,      \* each dispatch call: "idle", "waiting", "orphaned", "started"
  issuedIn,   \* lifecycle situation in which the dispatch call was made
  outcome,    \* state of the promise returned by dispatch
  pending,    \* keys of this._pending
  con,        \* this._pending[id].con
  timer,      \* requests whose timeout agent is running
  attempts,   \* the `attempts` counter of each timeout agent
  replyL,     \* requests with dispatch's once(REPLY:id) listener registered
  okL,        \* requests with the once(OK:id) listener registered
  errL,       \* requests with the once(ERR:id) listener registered
  drainSnap,  \* per stale socket: pendingIdsSnapshot of its drain tick
  sent,       \* successful transmissions of each request
  reslung,    \* transmissions made by a reconnect agent's open handler
  unanswered  \* per request and socket: whether the server has received
              \* transmissions on that connection it has not answered

cvars == <<sock, started, closedBy, hostClosed, client, opened, drainOn,
           userClosed, agents, phase, issuedIn, outcome, pending, con, timer,
           attempts, replyL, okL, errL, drainSnap, sent, reslung,
           unanswered>>

VARIABLES
  conState,   \* server side: con.readyState of every accepted connection
  sreq,       \* server side: every request, where it stands and its type
  rlog,       \* per request: 'reply' events, replies sent, 'stale' events
  nMid,       \* length of this._middlewareChain
  invoked     \* per request: the stages called, in order

svars == <<conState, sreq, rlog, nMid, invoked>>

VARIABLES
  plog,       \* per connection: PUSH messages sent to it, and 'stale'
              \* events emitted for a PUSH addressed to it
  pushLog     \* the scope arguments of the push() calls made so far

uvars == <<plog, pushLog>>

VARIABLES
  active,     \* pool: this._active, the tasks admitted and not yet done
  queued,     \* pool: this._queued
  waiters,    \* pool: the once('done') listeners, in registration order
  task        \* pool: every run() call, where it stands

pvars == <<active, queued, waiters, task>>

VARIABLES
  uncaught,   \* server process: exceptions that escaped a 'message' listener
  errorEv,    \* 'error' events the server has emitted
  httpLog     \* status codes of the HTTP responses, in order

hvars == <<uncaught, errorEv, httpLog>>

VARIABLES
  pingSt,     \* every ping() call: "idle" or "called"
  pingTimer,  \* its setTimeout: "off", "armed", "fired" or "cleared"
  pingDisp,   \* state of the promise of its dispatch('$OOMPA/PING')
  pingOut,    \* state of the promise ping() returned
  pingEv      \* "none", or what pingOut was when 'PING-TIMEOUT' was emitted

gvars == <<pingSt, pingTimer, pingDisp, pingOut, pingEv>>

vars == <<cvars, svars, uvars, hvars, pvars, gvars>>

sockVars == <<sock, started, closedBy, hostClosed>>
lifeVars == <<client, opened, drainOn, userClosed, agents>>
callVars == <<phase, issuedIn, outcome>>
tableVars == <<pending, con, timer, attempts, replyL, okL, errL>>
txVars == <<sent, reslung, unanswered>>

\* ------------------------------------------------------------- helpers
NoAgent == [st |-> "unused", sock |-> 0, exclude |-> {}]

\* Sockets not yet created; new Client(url) takes the least.
FreshSocks == {s \in Sock : sock[s] = "unused"}
NewSock == CHOOSE s \in FreshSocks : \A t \in FreshSocks : s <= t

FreshAgents == {a \in Agent : agents[a].st = "unused"}
NewAgent == CHOOSE a \in FreshAgents : \A b \in FreshAgents : a <= b

\* ws: send() succeeds only on an OPEN socket; this.client may be null.
CanSendAlways == TRUE
CanSend == client # 0 /\ sock[client] = "open"

\* A promise settles once: later resolve/reject calls change nothing.
SettleOverwrite(o, r, v) == [o EXCEPT ![r] = v]
Settle(o, r, v) == IF o[r] = "pending" THEN [o EXCEPT ![r] = v] ELSE o

\* The lifecycle situation a dispatch call is made in.
\* READY: open transport, `_opened` fulfilled.  RELATCHED: open transport but
\* `_opened` replaced by a reconnect agent that is still running.
\* CLOSED_NO_TICK: transport closed, `_opened` still the fulfilled one.
\* RECONNECTING: transport closed, a reconnect attempt has been started.
\* CLOSED_UNOPENED: the first connection failed, no reconnect tick yet.
Situation ==
  IF userClosed THEN "USERCLOSED"
  ELSE IF client = 0 THEN "DRAINING"
  ELSE IF sock[client] = "connecting" THEN "CONNECTING"
  ELSE IF sock[client] = "open" THEN (IF opened THEN "READY" ELSE "RELATCHED")
  ELSE IF opened THEN "CLOSED_NO_TICK"
  ELSE IF \E a \in Agent : agents[a].st = "active" /\ agents[a].sock # 0
  THEN "RECONNECTING"
  ELSE "CLOSED_UNOPENED"

\* The client after its constructor; drain: whether options.drainInterval
\* is set (the drain interval is created only then).
ClientStart(drain) ==
  /\ sock = [s \in Sock |-> IF s = 1 THEN "connecting" ELSE "unused"]
  /\ started = {1}
  /\ closedBy = [s \in Sock |-> "none"]
  /\ hostClosed = {}
  /\ client = 1
  /\ opened = FALSE
  /\ drainOn = drain
  /\ userClosed = FALSE
  /\ agents = [a \in Agent |-> NoAgent]
  /\ phase = [r \in Req |-> "idle"]
  /\ issuedIn = [r \in Req |-> "none"]
  /\ outcome = [r \in Req |-> "pending"]
  /\ pending = {}
  /\ con = [r \in Req |-> 0]
  /\ timer = {}
  /\ attempts = [r \in Req |-> 0]
  /\ replyL = {}
  /\ okL = {}
  /\ errL = {}
  /\ drainSnap = [s \in Sock |-> {}]
  /\ sent = [r \in Req |-> 0]
  /\ reslung = [r \in Req |-> 0]
  /\ unanswered = [r \in Req |-> [s \in Sock |-> FALSE]]

ClientInit == ClientStart(TRUE)

\* ------------------------------------------------------ transmissions
\* sling(request) for every request of S on the open socket c; the server
\* receives what is sent on an open socket.
SentAfter(S) == [r \in Req |-> IF r \in S THEN sent[r] + 1 ELSE sent[r]]
UnansweredAfter(S, c) ==
  [r \in Req |-> IF r \in S
                 THEN [unanswered[r] EXCEPT ![c] = TRUE]
                 ELSE unanswered[r]]

\* let attempts = this.attempts - 1
InitialAttemptsAll == Attempts
InitialAttempts == Attempts - 1

\* Object.keys(this._pending).filter(id => this._pending[id].con === this.client)
PendingIdsSnapshot == {r \in pending : con[r] = client}

\* Object.keys(this._pending).filter(id => state.exclude ? !state.exclude.has(id) : true)
ReslingSetAll(a) == pending
ReslingSet(a) == {r \in pending : r \notin agents[a].exclude}

\* code === CLOSE_ABNORMAL || code === SERVER_SHUTTING_OFF
ShouldReconnectAny(code) == TRUE
ShouldReconnect(code) == code = CLOSE_ABNORMAL \/ code = SERVER_SHUTTING_OFF

\* Dispatch calls whose body waits on the current `_opened` promise.
Waiters == {r \in Req : phase[r] = "waiting"}

\* _setupConnection: a new unfulfilled `_opened`; the resolver of the one it
\* replaces is dropped, so calls still waiting on that one never run.
PhaseAfterSetup ==
  [r \in Req |-> IF phase[r] = "waiting" THEN "orphaned" ELSE phase[r]]

\* Requests in the pending table that were transmitted on socket s and
\* have had no reply there.
PendingOn(s) == {r \in pending : unanswered[r][s]}

\* ------------------------------------------------------------- actions
\* dispatch(type, payload): the call, and its body when `_opened` is
\* already fulfilled (the body is then the next microtask).
Dispatch(r) ==
  /\ UNCHANGED <<svars, uvars, hvars, pvars, gvars>>
  /\ phase[r] = "idle"
  /\ \A q \in Req : q < r => phase[q] # "idle"
  /\ issuedIn' = [issuedIn EXCEPT ![r] = Situation]
  /\ IF ~opened
     THEN /\ phase' = [phase EXCEPT ![r] = "waiting"]
          /\ UNCHANGED <<outcome, tableVars, sent, unanswered>>
     ELSE /\ phase' = [phase EXCEPT ![r] = "started"]
          /\ timer' = timer \cup {r}
          /\ attempts' = [attempts EXCEPT ![r] = InitialAttempts]
          /\ pending' = pending \cup {r}
          /\ con' = [con EXCEPT ![r] = client]
          /\ replyL' = replyL \cup {r}
          /\ okL' = okL \cup {r}
          /\ errL' = errL \cup {r}
          /\ IF client = 0
             THEN UNCHANGED <<outcome, sent, unanswered>>
             ELSE IF CanSend
             THEN /\ sent' = SentAfter({r})
                  /\ unanswered' = UnansweredAfter({r}, client)
                  /\ UNCHANGED outcome
             ELSE \* send() throws inside the promise executor
                  /\ outcome' = Settle(outcome, r, "senderr")
                  /\ UNCHANGED <<sent, unanswered>>
  /\ UNCHANGED <<sockVars, lifeVars, drainSnap, reslung>>

\* The bodies of the waiting dispatch calls, run once `_opened` is fulfilled
\* in the open handler of socket c (which is then this.client and OPEN).
\* RS: the requests the handler re-slings before the bodies run.
OpenEffects(c, RS) ==
  LET W == Waiters IN
  /\ opened' = TRUE
  /\ phase' = [r \in Req |-> IF r \in W THEN "started" ELSE phase[r]]
  /\ timer' = timer \cup W
  /\ attempts' = [r \in Req |-> IF r \in W THEN InitialAttempts ELSE attempts[r]]
  /\ pending' = pending \cup W
  /\ con' = [r \in Req |-> IF r \in W THEN c ELSE con[r]]
  /\ replyL' = replyL \cup W
  /\ okL' = okL \cup W
  /\ errL' = errL \cup W
  /\ sent' = SentAfter(RS \cup W)
  /\ unanswered' = UnansweredAfter(RS \cup W, c)
  /\ reslung' = [r \in Req |-> IF r \in RS THEN reslung[r] + 1 ELSE reslung[r]]

\* The 'open' event of the socket the constructor created: start()'s open
\* listener emits 'ready' and calls this._resolver().
InitOpen ==
  /\ UNCHANGED <<svars, uvars, hvars, pvars, gvars>>
  /\ sock[1] = "connecting"
  /\ client = 1
  /\ sock' = [sock EXCEPT ![1] = "open"]
  /\ OpenEffects(1, {})
  /\ UNCHANGED <<started, closedBy, hostClosed, client, drainOn,
                 userClosed, agents, issuedIn, outcome, drainSnap>>

\* One tick of a timeout agent.
TimeoutTick(r) ==
  /\ UNCHANGED <<svars, uvars, hvars, pvars, gvars>>
  /\ r \in timer
  /\ IF attempts[r] > 0
     THEN /\ attempts' = [attempts EXCEPT ![r] = attempts[r] - 1]
          /\ IF CanSend
             THEN /\ sent' = SentAfter({r})
                  /\ unanswered' = UnansweredAfter({r}, client)
             ELSE \* sling throws; the catch swallows it
                  UNCHANGED <<sent, unanswered>>
          /\ UNCHANGED <<timer, outcome>>
     ELSE /\ timer' = timer \ {r}
          /\ outcome' = Settle(outcome, r, "timeout")
          /\ UNCHANGED <<attempts, sent, unanswered>>
  /\ UNCHANGED <<sockVars, lifeVars, phase, issuedIn, pending, con, replyL,
                 okL, errL, drainSnap, reslung>>

\* Stale sockets whose snapshot becomes empty with the reply to r.
DrainedBy(r) == {d \in Sock : drainSnap[d] = {r}}

\* The server answers a transmission of r it received on connection s and
\* the reply reaches the client: a 'message' event on a started socket,
\* handleMessage for a message of type t other than PUSH, with the id of r.  `more`: whether the server is left
\* with another transmission of r to answer on s (it received the retries
\* too).  A server that never answers, or a reply lost with its connection,
\* is this action not being taken.
Reply(r, s, t, more) ==
  /\ UNCHANGED <<svars, uvars, hvars, pvars, gvars>>
  /\ unanswered[r][s]
  /\ s \in started
  /\ sock[s] \in {"open", "closing"}
  /\ unanswered' = [unanswered EXCEPT ![r][s] = more]
  \* emit REPLY:<id>: dispatch's listener, then the drain listeners
  /\ IF r \in replyL
     THEN /\ pending' = pending \ {r}
          /\ con' = [con EXCEPT ![r] = 0]
          /\ timer' = timer \ {r}
          /\ attempts' = [attempts EXCEPT ![r] = 0]
          /\ replyL' = replyL \ {r}
     ELSE UNCHANGED <<pending, con, timer, attempts, replyL>>
  /\ drainSnap' = [d \in Sock |-> drainSnap[d] \ {r}]
  /\ sock' = [d \in Sock |-> IF d \in DrainedBy(r) /\ sock[d] = "open"
                              THEN "closing" ELSE sock[d]]
  /\ closedBy' = [d \in Sock |-> IF d \in DrainedBy(r) /\ sock[d] = "open"
                                  THEN "drain" ELSE closedBy[d]]
  \* emit <type>:<id>
  /\ IF t = "OK" /\ r \in okL
     THEN /\ outcome' = Settle(outcome, r, "ok")
          /\ okL' = okL \ {r}
          /\ UNCHANGED errL
     ELSE IF t = "ERR" /\ r \in errL
     THEN /\ outcome' = Settle(outcome, r, "err")
          /\ errL' = errL \ {r}
          /\ UNCHANGED okL
     ELSE UNCHANGED <<outcome, okL, errL>>
  /\ UNCHANGED <<started, hostClosed, lifeVars, phase, issuedIn,
                 sent, reslung>>

\* Event names a PUSH message can carry that the client itself listens to:
\* REPLY:<id>, OK:<id>, ERR:<id> of a request, and 'reconnected'.
PushEvents == {"REPLY", "OK", "ERR", "reconnected"}

\* A PUSH message arrives on the started socket s: handleMessage emits
\* message.event with message.payload, whatever the event name is.
\* REPLY:<id> runs dispatch's listener and the drain listeners; OK:<id> and
\* ERR:<id> run the listeners that settle the call (the payload being an
\* object); 'reconnected' runs this._resolver, which fulfils `_opened`, so
\* the bodies of the waiting dispatch calls run with this.client as it is.
PushMessage(s, ev, r) ==
  /\ UNCHANGED <<svars, uvars, hvars, pvars, gvars>>
  /\ s \in started
  /\ sock[s] \in {"open", "closing"}
  /\ CASE ev = "REPLY" ->
            /\ r \in replyL
            /\ pending' = pending \ {r}
            /\ con' = [con EXCEPT ![r] = 0]
            /\ timer' = timer \ {r}
            /\ attempts' = [attempts EXCEPT ![r] = 0]
            /\ replyL' = replyL \ {r}
            /\ drainSnap' = [d \in Sock |-> drainSnap[d] \ {r}]
            /\ sock' = [d \in Sock |-> IF d \in DrainedBy(r) /\ sock[d] = "open"
                                        THEN "closing" ELSE sock[d]]
            /\ closedBy' = [d \in Sock |->
                              IF d \in DrainedBy(r) /\ sock[d] = "open"
                              THEN "drain" ELSE closedBy[d]]
            /\ UNCHANGED <<opened, phase, outcome, okL, errL, sent, unanswered>>
       [] ev = "OK" ->
            /\ r \in okL
            /\ outcome' = Settle(outcome, r, "ok")
            /\ okL' = okL \ {r}
            /\ UNCHANGED <<sock, closedBy, opened, phase, pending, con, timer,
                           attempts, replyL, errL, drainSnap, sent, unanswered>>
       [] ev = "ERR" ->
            /\ r \in errL
            /\ outcome' = Settle(outcome, r, "err")
            /\ errL' = errL \ {r}
            /\ UNCHANGED <<sock, closedBy, opened, phase, pending, con, timer,
                           attempts, replyL, okL, drainSnap, sent, unanswered>>
       [] ev = "reconnected" ->
            LET W == Waiters IN
            /\ ~opened
            /\ opened' = TRUE
            /\ phase' = [q \in Req |-> IF q \in W THEN "started" ELSE phase[q]]
            /\ timer' = timer \cup W
            /\ attempts' = [q \in Req |-> IF q \in W THEN InitialAttempts
                                          ELSE attempts[q]]
            /\ pending' = pending \cup W
            /\ con' = [q \in Req |-> IF q \in W THEN client ELSE con[q]]
            /\ replyL' = replyL \cup W
            /\ okL' = okL \cup W
            /\ errL' = errL \cup W
            /\ IF client = 0
               THEN UNCHANGED <<outcome, sent, unanswered>>
               ELSE IF CanSend
               THEN /\ sent' = SentAfter(W)
                    /\ unanswered' = UnansweredAfter(W, client)
                    /\ UNCHANGED outcome
               ELSE /\ outcome' = [q \in Req |-> IF q \in W
                                                  THEN Settle(outcome, q, "senderr")[q]
                                                  ELSE outcome[q]]
                    /\ UNCHANGED <<sent, unanswered>>
            /\ UNCHANGED <<sock, closedBy, drainSnap>>
  /\ UNCHANGED <<started, hostClosed, client, drainOn, userClosed, agents,
                 issuedIn, reslung>>

\* if (!pendingIdsSnapshot.size && staleClient) return staleClient.close(GOING_AWAY)
CloseStaleNowAlways(snap) == TRUE
CloseStaleNow(snap) == snap = {}

\* One tick of the drain interval (this._agent).
DrainTick ==
  /\ UNCHANGED <<svars, uvars, hvars, pvars, gvars>>
  /\ drainOn
  /\ client # 0
  /\ sock[client] = "open"
  /\ FreshSocks # {}
  /\ FreshAgents # {}
  /\ LET snap == PendingIdsSnapshot
         stale == client
     IN
     /\ client' = 0
     \* attemptReconnect(pendingIdsSnapshot, true): the first _reconAgent
     \* run is immediate
     /\ agents' = [agents EXCEPT ![NewAgent] =
                     [st |-> "active", sock |-> NewSock, exclude |-> snap]]
     /\ phase' = PhaseAfterSetup
     /\ opened' = FALSE
     /\ IF CloseStaleNow(snap)
        THEN /\ sock' = [sock EXCEPT ![NewSock] = "connecting",
                                     ![stale] = "closing"]
             /\ closedBy' = [closedBy EXCEPT ![stale] = "drain"]
             /\ UNCHANGED drainSnap
        ELSE /\ sock' = [sock EXCEPT ![NewSock] = "connecting"]
             /\ drainSnap' = [drainSnap EXCEPT ![stale] = snap]
             /\ UNCHANGED closedBy
  /\ UNCHANGED <<started, hostClosed, drainOn, userClosed,
                 issuedIn, outcome, tableVars, txVars>>

\* One tick of a reconnect agent's interval: _reconAgent(state) up to the
\* creation of the new socket.
ReconTick(a) ==
  /\ UNCHANGED <<svars, uvars, hvars, pvars, gvars>>
  /\ agents[a].st = "active"
  /\ FreshSocks # {}
  /\ LET old == agents[a].sock
         aborted == old # 0 /\ sock[old] = "connecting"
     IN
     /\ sock' = [s \in Sock |-> IF s = NewSock THEN "connecting"
                                ELSE IF aborted /\ s = old THEN "closed"
                                ELSE sock[s]]
     /\ agents' = [agents EXCEPT ![a].sock = NewSock]
  /\ phase' = PhaseAfterSetup
  /\ opened' = FALSE
  /\ UNCHANGED <<started, closedBy, hostClosed, client, drainOn,
                 userClosed, issuedIn, outcome, tableVars, drainSnap, txVars>>

\* The 'open' event of a reconnect agent's socket.
ReconOpen(a) ==
  /\ UNCHANGED <<svars, uvars, hvars, pvars, gvars>>
  /\ agents[a].st = "active"
  /\ agents[a].sock # 0
  /\ sock[agents[a].sock] = "connecting"
  /\ LET s == agents[a].sock IN
     /\ sock' = [sock EXCEPT ![s] = "open"]
     \* clearInterval(state.reconAgent): the agent is finished
     /\ agents' = [agents EXCEPT ![a] = [st |-> "done", sock |-> 0, exclude |-> {}]]
     /\ client' = s
     /\ started' = started \cup {s}
     /\ OpenEffects(s, ReslingSet(a))
  /\ UNCHANGED <<closedBy, hostClosed, drainOn, userClosed,
                 issuedIn, outcome, drainSnap>>

\* The 'error' event of a reconnect agent's socket: 'reconnect-failed'.
ReconFail(a) ==
  /\ UNCHANGED <<svars, uvars, hvars, pvars, gvars>>
  /\ agents[a].st = "active"
  /\ agents[a].sock # 0
  /\ sock[agents[a].sock] = "connecting"
  /\ sock' = [sock EXCEPT ![agents[a].sock] = "closed"]
  /\ UNCHANGED <<started, closedBy, hostClosed, lifeVars, callVars,
                 tableVars, drainSnap, txVars>>

\* Close codes the 'close' event of socket s can carry: any code when the
\* remote side closes an open socket, 1006 when the first connection fails,
\* the code the client asked for (or 1006) when the client closed it.
CodesFor(s) ==
  IF sock[s] = "open" THEN CloseCodes
  ELSE IF sock[s] = "closing" THEN {GOING_AWAY, CLOSE_ABNORMAL}
  ELSE IF sock[s] = "connecting" /\ s \in started THEN {CLOSE_ABNORMAL}
  ELSE {}

\* The 'close' event of a started socket: start()'s close listener.
SockClose(s, code) ==
  /\ UNCHANGED <<svars, uvars, hvars, pvars, gvars>>
  /\ code \in CodesFor(s)
  /\ s \in started
  /\ sock' = [sock EXCEPT ![s] = "closed"]
  /\ closedBy' = [closedBy EXCEPT ![s] =
                    IF sock[s] # "closing" THEN "remote"
                    ELSE IF code = CLOSE_ABNORMAL THEN "lost"
                    ELSE closedBy[s]]
  /\ unanswered' = [r \in Req |-> [unanswered[r] EXCEPT ![s] = FALSE]]
  /\ hostClosed' = hostClosed \cup {s}
  /\ IF ShouldReconnect(code)
     THEN /\ FreshAgents # {}
          /\ agents' = [agents EXCEPT ![NewAgent] =
                          [st |-> "active", sock |-> 0, exclude |-> {}]]
     ELSE UNCHANGED agents
  /\ UNCHANGED <<started, client, opened, drainOn, userClosed, callVars,
                 tableVars, drainSnap, sent, reslung>>

\* close(): stop the drain interval, close this.client with GOING_AWAY
\* (a TypeError when this.client is null).
UserClose ==
  /\ UNCHANGED <<svars, uvars, hvars, pvars, gvars>>
  /\ ~userClosed
  /\ userClosed' = TRUE
  /\ drainOn' = FALSE
  /\ IF client # 0 /\ sock[client] \in {"open", "connecting"}
     THEN /\ sock' = [sock EXCEPT ![client] = "closing"]
          /\ closedBy' = [closedBy EXCEPT ![client] = "user"]
     ELSE UNCHANGED <<sock, closedBy>>
  /\ UNCHANGED <<started, hostClosed, client, opened, agents,
                 callVars, tableVars, drainSnap, txVars>>

\* =====================================================================
\* ping(timeout)
\* =====================================================================
Ping == 1..MaxPing

\* How the promise of dispatch can settle: resolved by an OK, rejected by
\* an ERR, by the final tick of its timeout agent or by a failed send.
DispatchOutcomes == {"ok", "err", "timeout", "senderr"}

PingInit ==
  /\ pingSt = [p \in Ping |-> "idle"]
  /\ pingTimer = [p \in Ping |-> "off"]
  /\ pingDisp = [p \in Ping |-> "pending"]
  /\ pingOut = [p \in Ping |-> "pending"]
  /\ pingEv = [p \in Ping |-> "none"]

\* ping(timeout): arm the timer, call dispatch.
PingCall(p) ==
  /\ UNCHANGED <<cvars, svars, uvars, hvars, pvars>>
  /\ pingSt[p] = "idle"
  /\ \A q \in Ping : q < p => pingSt[q] # "idle"
  /\ pingSt' = [pingSt EXCEPT ![p] = "called"]
  /\ pingTimer' = [pingTimer EXCEPT ![p] = "armed"]
  /\ UNCHANGED <<pingDisp, pingOut, pingEv>>

\* The setTimeout callback: emit 'PING-TIMEOUT', reject with 'Timeout error'.
PingTimerFires(p) ==
  /\ UNCHANGED <<cvars, svars, uvars, hvars, pvars>>
  /\ pingTimer[p] = "armed"
  /\ pingTimer' = [pingTimer EXCEPT ![p] = "fired"]
  /\ pingEv' = [pingEv EXCEPT ![p] = pingOut[p]]
  /\ pingOut' = Settle(pingOut, p, "timeout")
  /\ UNCHANGED <<pingSt, pingDisp>>

\* clearTimeout(timeoutError): only the .then callback calls it.
ClearsTimer(o) == o = "ok"

\* The promise of dispatch settles with o:
\* .then(res => { clearTimeout(timeoutError); resolve(res) }).catch(reject)
PingDispatchSettles(p, o) ==
  /\ UNCHANGED <<cvars, svars, uvars, hvars, pvars>>
  /\ pingSt[p] = "called"
  /\ pingDisp[p] = "pending"
  /\ pingDisp' = [pingDisp EXCEPT ![p] = o]
  /\ pingTimer' = [pingTimer EXCEPT ![p] =
                     IF ClearsTimer(o) /\ @ = "armed" THEN "cleared" ELSE @]
  /\ pingOut' = Settle(pingOut, p, IF o = "timeout" THEN "dtimeout" ELSE o)
  /\ UNCHANGED <<pingSt, pingEv>>

PingNext ==
  \/ \E p \in Ping : PingCall(p)
  \/ \E p \in Ping : PingTimerFires(p)
  \/ \E p \in Ping, o \in DispatchOutcomes : PingDispatchSettles(p, o)

\* =====================================================================
\* The server dispatcher
\* =====================================================================
\* Request types: a key of the schema, the reserved ping type, a name the
\* schema object only inherits (such as "toString"), any other name.
RequestTypes == {"APP", "PING", "INHERITED", "UNKNOWN"}

\* request.type in this._app: true for own and for inherited properties.
TypeInApp(type) == type \in {"APP", "INHERITED"}

\* What a handler chain settles with: a value JSON can encode, a native
\* Error object, or a value JSON.stringify throws on (a cyclic object).
ValueKinds == {"plain", "error", "cyclic"}

\* Stages of a chain: middleware i is stage i; the terminal handler
\* (req => this.appCall(req, this._app[req.type])) and the healthcheck.
Handler == MaxMid + 1
Healthcheck == MaxMid + 2

NoLog == [ev |-> <<>>, sent |-> <<>>, stale |-> <<>>, threw |-> FALSE]

NoRequest ==
  [st |-> "none", con |-> 0, type |-> "none", chain |-> 0, pos |-> 0,
   ok |-> TRUE, kind |-> "none", passed |-> 0]

ServerInit ==
  /\ conState = [c \in SCon |-> "OPEN"]
  /\ sreq = [q \in SReq |-> NoRequest]
  /\ rlog = [q \in SReq |-> NoLog]
  /\ nMid = 0
  /\ invoked = [q \in SReq |-> <<>>]

\* JSON.stringify(data) throws a TypeError on a cyclic value.
StringifyThrows(kind) == kind = "cyclic"

\* sendTo(con, data): send when the connection is OPEN, else emit 'stale'.
sendToAlways(log, c, type, kind) == [log EXCEPT !.sent = Append(@, type)]
sendTo(log, c, type, kind) ==
  IF conState[c] = "OPEN"
  THEN IF StringifyThrows(kind)
       THEN [log EXCEPT !.threw = TRUE]
       ELSE [log EXCEPT !.sent = Append(@, type)]
  ELSE [log EXCEPT !.stale = Append(@, type)]

\* replyWith(con, request, reply): emit 'reply', then sendTo.
replyWith(log, c, type, kind) ==
  sendTo([log EXCEPT !.ev = Append(@, type), !.threw = FALSE], c, type, kind)

\* passError(con, request): a native Error is replaced by its toString().
passError(log, c, kind) ==
  replyWith(log, c, "ERR", IF kind = "error" THEN "plain" ELSE kind)

\* .then(this.passResult(con, request)).catch(this.passError(con, request)):
\* the catch also receives what passResult throws (a TypeError).
passResult(log, c, kind) ==
  LET first == replyWith(log, c, "OK", kind) IN
  IF first.threw THEN passError(first, c, "error") ELSE first

\* handleUnknownRequest(con, request): ERR with a string.
handleUnknownRequest(log, c) == replyWith(log, c, "ERR", "plain")

\* chain[i + 1]: the stage that follows `pos` stages in a chain of `chain`
\* middlewares.
NextStageSkip(pos, chain) == Handler
NextStage(pos, chain) == IF pos < chain THEN pos + 1 ELSE Handler

\* The chain of request q: the array handleRequest built, when the
\* request arrived, from a copy (concat) of this._middlewareChain.
ChainOfLive(q) == nMid
ChainOf(q) == sreq[q].chain

\* use(middleware)
Use ==
  /\ UNCHANGED <<cvars, uvars, hvars, pvars, gvars>>
  /\ nMid < MaxMid
  /\ nMid' = nMid + 1
  /\ UNCHANGED <<conState, sreq, rlog, invoked>>

\* A 'message' event on connection c: onConnection's listener and
\* handleRequest up to the point where the chain or the healthcheck runs.
\* The chain is built from the middlewares registered at this moment.
Receive(q, c, type) ==
  /\ UNCHANGED <<cvars, uvars, hvars, pvars, gvars>>
  /\ sreq[q].st = "none"
  /\ \A p \in SReq : p < q => sreq[p].st # "none"
  /\ conState[c] = "OPEN"
  /\ IF TypeInApp(type)
     THEN /\ sreq' = [sreq EXCEPT ![q] =
                        [NoRequest EXCEPT !.st = "chain", !.con = c,
                                          !.type = type, !.chain = nMid]]
          /\ UNCHANGED <<rlog, invoked>>
     ELSE IF type = "PING"
     THEN \* this._healthcheck() is called at once
          /\ sreq' = [sreq EXCEPT ![q] =
                        [NoRequest EXCEPT !.st = "wait", !.con = c,
                                          !.type = type, !.pos = 1]]
          /\ invoked' = [invoked EXCEPT ![q] = <<Healthcheck>>]
          /\ UNCHANGED rlog
     ELSE /\ sreq' = [sreq EXCEPT ![q] =
                        [NoRequest EXCEPT !.st = "done", !.con = c,
                                          !.type = type]]
          /\ rlog' = [rlog EXCEPT ![q] = handleUnknownRequest(rlog[q], c)]
          /\ UNCHANGED invoked
  /\ UNCHANGED <<conState, nMid>>

\* chain[pos] is called: the next middleware, or the terminal handler after
\* the last one, receives the request its predecessor passed to next().
Enter(q) ==
  /\ UNCHANGED <<cvars, uvars, hvars, pvars, gvars>>
  /\ sreq[q].st = "chain"
  /\ invoked' = [invoked EXCEPT ![q] =
                   Append(@, NextStage(sreq[q].pos, ChainOf(q)))]
  /\ sreq' = [sreq EXCEPT ![q].st = "wait", ![q].pos = @ + 1]
  /\ UNCHANGED <<conState, rlog, nMid>>

\* The middleware that is running calls next(req), with the request it was
\* given or with one of its own making.
StageNext(q, rewrite) ==
  /\ UNCHANGED <<cvars, uvars, hvars, pvars, gvars>>
  /\ sreq[q].st = "wait"
  /\ sreq[q].type # "PING"
  /\ sreq[q].pos <= ChainOf(q)
  /\ sreq' = [sreq EXCEPT ![q].st = "chain",
                          ![q].passed = IF rewrite THEN sreq[q].pos ELSE @]
  /\ UNCHANGED <<conState, rlog, nMid, invoked>>

\* The innermost stage invoked so far settles without calling next: it
\* returns or resolves with a value (ok), or throws or rejects.
StageSettle(q, ok, kind) ==
  /\ UNCHANGED <<cvars, uvars, hvars, pvars, gvars>>
  /\ sreq[q].st = "wait"
  /\ sreq' = [sreq EXCEPT ![q].st = "unwind", ![q].pos = @ - 1,
                          ![q].passed = 0, ![q].ok = ok, ![q].kind = kind]
  /\ UNCHANGED <<conState, rlog, nMid, invoked>>

\* The result of next() reaches the enclosing middleware, which passes it on
\* (keep) or settles with a result of its own: a middleware may catch a
\* failure and replace it, transform a value, or fail itself.
Unwind(q, keep, ok, kind) ==
  /\ UNCHANGED <<cvars, uvars, hvars, pvars, gvars>>
  /\ sreq[q].st = "unwind"
  /\ sreq[q].pos >= 1
  /\ sreq' = [sreq EXCEPT ![q].pos = @ - 1,
                          ![q].ok = IF keep THEN @ ELSE ok,
                          ![q].kind = IF keep THEN @ ELSE kind]
  /\ UNCHANGED <<conState, rlog, nMid, invoked>>

\* The chain (or the healthcheck) of request q resolves with a value.
ChainResolves(q) ==
  /\ UNCHANGED <<cvars, uvars, hvars, pvars, gvars>>
  /\ sreq[q].st = "unwind"
  /\ sreq[q].pos = 0
  /\ sreq[q].ok
  /\ sreq' = [sreq EXCEPT ![q].st = "done", ![q].kind = "none"]
  /\ rlog' = [rlog EXCEPT ![q] = passResult(rlog[q], sreq[q].con, sreq[q].kind)]
  /\ UNCHANGED <<conState, nMid, invoked>>

\* The chain (or the healthcheck) of request q rejects, or a handler or a
\* middleware threw synchronously inside the promise chain.
ChainRejects(q) ==
  /\ UNCHANGED <<cvars, uvars, hvars, pvars, gvars>>
  /\ sreq[q].st = "unwind"
  /\ sreq[q].pos = 0
  /\ ~sreq[q].ok
  /\ sreq' = [sreq EXCEPT ![q].st = "done", ![q].kind = "none"]
  /\ rlog' = [rlog EXCEPT ![q] = passError(rlog[q], sreq[q].con, sreq[q].kind)]
  /\ UNCHANGED <<conState, nMid, invoked>>

\* The close handshake of a connection starts: readyState CLOSING.
ConClosing(c) ==
  /\ UNCHANGED <<cvars, hvars, pvars, gvars>>
  /\ conState[c] = "OPEN"
  /\ conState' = [conState EXCEPT ![c] = "CLOSING"]
  /\ UNCHANGED <<sreq, rlog, nMid, invoked, uvars>>

\* The connection is closed (the client went away, or server.close()) and
\* leaves server.clients.
ConClose(c) ==
  /\ UNCHANGED <<cvars, hvars, pvars, gvars>>
  /\ conState[c] \in {"OPEN", "CLOSING"}
  /\ conState' = [conState EXCEPT ![c] = "CLOSED"]
  /\ UNCHANGED <<sreq, rlog, nMid, invoked, uvars>>

ServerNext ==
  \/ Use
  \/ \E q \in SReq, c \in SCon, type \in RequestTypes : Receive(q, c, type)
  \/ \E q \in SReq : Enter(q)
  \/ \E q \in SReq, rewrite \in BOOLEAN : StageNext(q, rewrite)
  \/ \E q \in SReq, ok \in BOOLEAN, kind \in ValueKinds : StageSettle(q, ok, kind)
  \/ \E q \in SReq, keep, ok \in BOOLEAN, kind \in ValueKinds :
       Unwind(q, keep, ok, kind)
  \/ \E q \in SReq : ChainResolves(q)
  \/ \E q \in SReq : ChainRejects(q)
  \/ \E c \in SCon : ConClose(c)

\* =====================================================================
\* Server push
\* =====================================================================
\* The scope argument of push(): the default BROADCAST, one connection, or
\* an array of connections (possibly with repetitions).
Broadcast == [kind |-> "broadcast", list |-> <<>>]
Single(c) == [kind |-> "single", list |-> <<c>>]
List(l) == [kind |-> "list", list |-> l]

ConLists == UNION {[1..n -> SCon] : n \in 1..MaxCon}
Scopes == {Broadcast} \cup {Single(c) : c \in SCon} \cup {List(l) : l \in ConLists}

\* this.server.clients: the connections not yet closed, in the order in
\* which they were accepted.
RECURSIVE ClientsFrom(_)
ClientsFrom(c) ==
  IF c > MaxCon THEN <<>>
  ELSE IF conState[c] \in {"OPEN", "CLOSING"} THEN <<c>> \o ClientsFrom(c + 1)
  ELSE ClientsFrom(c + 1)

\* if (scope === BROADCAST) scope = this.server.clients
PushTargets(scope) ==
  IF scope.kind = "broadcast" THEN ClientsFrom(1) ELSE scope.list

\* scope.forEach(con => this.sendTo(con, e)), or this.sendTo(scope, e)
RECURSIVE PushTo(_, _)
PushTo(log, targets) ==
  IF targets = <<>> THEN log
  ELSE LET c == Head(targets) IN
       PushTo([log EXCEPT ![c] = sendTo(log[c], c, "PUSH", "plain")],
              Tail(targets))

PushInit ==
  /\ plog = [c \in SCon |-> NoLog]
  /\ pushLog = <<>>

\* push(eventType, eventData, scope)
Push(scope) ==
  /\ UNCHANGED <<cvars, svars, hvars, pvars, gvars>>
  /\ Len(pushLog) < MaxPush
  /\ plog' = PushTo(plog, PushTargets(scope))
  /\ pushLog' = Append(pushLog, scope)

PushNext ==
  \/ \E scope \in Scopes : Push(scope)
  \/ \E c \in SCon : ConClosing(c)
  \/ \E c \in SCon : ConClose(c)

\* =====================================================================
\* The server process: HTTP requests and undecodable frames
\* =====================================================================
HostInit ==
  /\ uncaught = 0
  /\ errorEv = 0
  /\ httpLog = <<>>

\* An HTTP request for a url other than /disconnect: the healthcheck is
\* called; 200 when it resolves, an 'error' event and 500 when it rejects.
HttpHealthcheck(ok) ==
  /\ UNCHANGED <<cvars, svars, uvars, pvars, gvars>>
  /\ Len(httpLog) < MaxHttp
  /\ httpLog' = Append(httpLog, IF ok THEN 200 ELSE 500)
  /\ errorEv' = IF ok THEN errorEv ELSE errorEv + 1
  /\ UNCHANGED uncaught

\* An HTTP request for /disconnect: every connection is closed, 200.
HttpDisconnect ==
  /\ UNCHANGED <<cvars, uvars, pvars, gvars>>
  /\ Len(httpLog) < MaxHttp
  /\ httpLog' = Append(httpLog, 200)
  /\ conState' = [c \in SCon |-> IF conState[c] = "OPEN" THEN "CLOSING"
                                  ELSE conState[c]]
  /\ UNCHANGED <<sreq, rlog, nMid, invoked, uncaught, errorEv>>

\* Requests whose chain or healthcheck has not settled yet.
Unsettled == {q \in SReq : sreq[q].st \in {"chain", "wait", "unwind"}}

\* A 'message' event on connection c with a frame that is not JSON:
\* JSON.parse throws inside the listener, and nothing on the way up
\* catches it.  handled: the application has installed a handler for
\* uncaught exceptions and the process goes on; otherwise the process
\* exits: every connection is gone and the requests in flight are lost.
BadFrame(c, handled) ==
  /\ UNCHANGED <<cvars, uvars, pvars, gvars>>
  /\ conState[c] = "OPEN"
  /\ uncaught < MaxBad
  /\ uncaught' = uncaught + 1
  /\ IF handled
     THEN UNCHANGED <<conState, sreq>>
     ELSE /\ conState' = [d \in SCon |-> "CLOSED"]
          /\ sreq' = [q \in SReq |-> IF q \in Unsettled
                                      THEN [sreq[q] EXCEPT !.st = "lost"]
                                      ELSE sreq[q]]
  /\ UNCHANGED <<rlog, nMid, invoked, errorEv, httpLog>>

\* The server without middleware, with its HTTP side and with clients
\* that may send frames that are not JSON.
HostNext ==
  \/ \E q \in SReq, c \in SCon, type \in RequestTypes : Receive(q, c, type)
  \/ \E q \in SReq : Enter(q)
  \/ \E q \in SReq, ok \in BOOLEAN, kind \in ValueKinds : StageSettle(q, ok, kind)
  \/ \E q \in SReq : ChainResolves(q)
  \/ \E q \in SReq : ChainRejects(q)
  \/ \E c \in SCon : ConClose(c)
  \/ \E ok \in BOOLEAN : HttpHealthcheck(ok)
  \/ HttpDisconnect
  \/ \E c \in SCon, handled \in BOOLEAN : BadFrame(c, handled)

\* =====================================================================
\* The promise pool (src/middleware/pool/promise-pool.js)
\* =====================================================================
Task == 1..MaxTask

\* How a factory behaves when it is called: it returns a promise, or it
\* throws synchronously.
FactoryKinds == {"async", "throws"}

NoTask == [st |-> "new", f |-> "async", calls |-> 0]

PoolInit ==
  /\ active = {}
  /\ queued = 0
  /\ waiters = <<>>
  /\ task = [t \in Task |-> NoTask]

\* this._active.size < this._concurrent
HasSlotLoose(a) == Cardinality(a) <= Concurrency
HasSlot(a) == Cardinality(a) < Concurrency

\* this._queued < this._maxQueued
HasRoomNever(n) == FALSE
HasRoom(n) == n < MaxQueued

\* The listener list without its first registration of w.
RECURSIVE RemoveFirst(_, _)
RemoveFirst(l, w) ==
  IF l = <<>> THEN <<>>
  ELSE IF Head(l) = w THEN Tail(l)
  ELSE <<Head(l)>> \o RemoveFirst(Tail(l), w)

\* run(factory) on the pool state P for task w with factory kind f.
\* admitted: factory() is called and its promise tracked; a factory that
\* throws makes run throw (P.threw).  queued: a once('done') listener is
\* registered.  Otherwise the returned promise is rejected.
RunOn(P, w, f) ==
  IF HasSlot(P.active)
  THEN IF f = "throws"
       THEN [P EXCEPT !.task[w].st = "threw", !.task[w].calls = @ + 1,
                      !.threw = TRUE]
       ELSE [P EXCEPT !.task[w].st = "active", !.task[w].calls = @ + 1,
                      !.active = @ \cup {w}]
  ELSE IF HasRoom(P.queued)
  THEN [P EXCEPT !.task[w].st = "queued", !.queued = @ + 1,
                 !.waiters = Append(@, w)]
  ELSE [P EXCEPT !.task[w].st = "rejected"]

\* emit('done', p) for the listeners registered when it starts (snap): each
\* once('done') listener is removed, decrements _queued and re-enters run.
\* An exception thrown by a listener ends the emit; the listeners after it
\* stay registered, and the promise of the waiter that threw is never
\* settled ("hung").
RECURSIVE Wake(_, _)
Wake(P, snap) ==
  IF snap = <<>> THEN P
  ELSE LET w == Head(snap)
           P1 == [P EXCEPT !.waiters = RemoveFirst(@, w), !.queued = @ - 1]
           P2 == RunOn(P1, w, P1.task[w].f)
       IN IF P2.threw
          THEN [P2 EXCEPT !.task[w].st = "hung"]
          ELSE Wake(P2, Tail(snap))

PoolState == [active |-> active, queued |-> queued, waiters |-> waiters,
              task |-> task, threw |-> FALSE]

\* An application call of run(factory): the next task.
Run(t, f) ==
  /\ UNCHANGED <<cvars, svars, uvars, hvars, gvars>>
  /\ task[t].st = "new"
  /\ \A u \in Task : u < t => task[u].st # "new"
  /\ LET P == RunOn([PoolState EXCEPT !.task[t].f = f], t, f) IN
     /\ active' = P.active
     /\ queued' = P.queued
     /\ waiters' = P.waiters
     /\ task' = P.task

\* The promise of an admitted factory settles: .then (ok) or .catch emits
\* 'done'.  The constructor's listener deletes p from _active, then the
\* waiters run.  When a listener throws inside the .then callback, the
\* .catch callback emits 'done' once more and rethrows: the promise run()
\* returned for t is then rejected with the waiter's error ("foreign").
Done(t, ok) ==
  /\ UNCHANGED <<cvars, svars, uvars, hvars, gvars>>
  /\ task[t].st = "active"
  /\ LET P0 == [PoolState EXCEPT !.active = @ \ {t}]
         P1 == Wake(P0, P0.waiters)
         P2 == IF ok /\ P1.threw
               THEN Wake([P1 EXCEPT !.threw = FALSE], P1.waiters)
               ELSE P1
         res == IF P1.threw THEN "foreign" ELSE IF ok THEN "ok" ELSE "err"
     IN
     /\ active' = P2.active
     /\ queued' = P2.queued
     /\ waiters' = P2.waiters
     /\ task' = [P2.task EXCEPT ![t].st = res]

PoolNext ==
  \/ \E t \in Task, f \in FactoryKinds : Run(t, f)
  \/ \E t \in Task, ok \in BOOLEAN : Done(t, ok)

Init ==
  ClientInit /\ ServerInit /\ PushInit /\ HostInit /\ PoolInit /\ PingInit

Next ==
  \/ \E r \in Req : Dispatch(r)
  \/ InitOpen
  \/ \E r \in Req : TimeoutTick(r)
  \/ \E r \in Req, s \in Sock, t \in ReplyTypes, more \in BOOLEAN :
       Reply(r, s, t, more)
  \/ DrainTick
  \/ \E a \in Agent : ReconTick(a)
  \/ \E a \in Agent : ReconOpen(a)
  \/ \E a \in Agent : ReconFail(a)
  \/ \E s \in Sock, code \in CloseCodes : SockClose(s, code)

Spec == Init /\ [][Next]_vars

SpecServer == Init /\ [][ServerNext]_vars

SpecPush == Init /\ [][PushNext]_vars

SpecPool == Init /\ [][PoolNext]_vars

SpecHost == Init /\ [][HostNext]_vars

SpecPing == Init /\ [][PingNext]_vars

\* The client constructed with the default options (no drain interval),
\* facing a server that may also answer with a message whose type is none
\* of OK, ERR, PUSH.
InitDefault ==
  /\ ClientStart(FALSE) /\ ServerInit /\ PushInit /\ HostInit /\ PoolInit
  /\ PingInit

NextDefault ==
  \/ \E r \in Req : Dispatch(r)
  \/ InitOpen
  \/ \E r \in Req : TimeoutTick(r)
  \/ \E r \in Req, s \in Sock, t \in FrameTypes : Reply(r, s, t, FALSE)
  \/ \E a \in Agent : ReconTick(a)
  \/ \E a \in Agent : ReconOpen(a)
  \/ \E a \in Agent : ReconFail(a)
  \/ \E s \in Sock, code \in CloseCodes : SockClose(s, code)

SpecDefault == InitDefault /\ [][NextDefault]_vars

\* The same client facing a server that accepts connections and requests
\* but answers nothing.  Timers and intervals fire as long as they are
\* armed; whether a connection opens, fails or closes is up to the server.
NextSilent ==
  \/ \E r \in Req : Dispatch(r)
  \/ InitOpen
  \/ \E r \in Req : TimeoutTick(r)
  \/ \E a \in Agent : ReconTick(a)
  \/ \E a \in Agent : ReconOpen(a)
  \/ \E a \in Agent : ReconFail(a)
  \/ \E s \in Sock, code \in CloseCodes : SockClose(s, code)

SpecSilent ==
  /\ InitDefault
  /\ [][NextSilent]_vars
  /\ \A r \in Req : WF_vars(TimeoutTick(r))
  /\ \A a \in Agent : WF_vars(ReconTick(a))

\* The client with a drain interval, facing a server that accepts every
\* connection at once, keeps its connections open, answers no request and
\* sends PUSH messages with any event name.
NextPushed ==
  \/ \E r \in Req : Dispatch(r)
  \/ InitOpen
  \/ \E r \in Req : TimeoutTick(r)
  \/ DrainTick
  \/ \E a \in Agent : ReconOpen(a)
  \/ \E s \in Sock, ev \in PushEvents, r \in Req : PushMessage(s, ev, r)

SpecPushed == Init /\ [][NextPushed]_vars

\* The client with an application that may also call close(), facing a
\* server that answers every transmission at most once.
NextClose ==
  \/ \E r \in Req : Dispatch(r)
  \/ InitOpen
  \/ \E r \in Req : TimeoutTick(r)
  \/ \E r \in Req, s \in Sock, t \in ReplyTypes : Reply(r, s, t, FALSE)
  \/ DrainTick
  \/ \E a \in Agent : ReconTick(a)
  \/ \E a \in Agent : ReconOpen(a)
  \/ \E a \in Agent : ReconFail(a)
  \/ \E s \in Sock, code \in CloseCodes : SockClose(s, code)
  \/ UserClose

SpecClose == Init /\ [][NextClose]_vars

\* =====================================================================
\* Properties of the client
\* =====================================================================

\* C1: the caller of dispatch receives at most one terminal outcome per
\* request: once the call is settled (OK payload, ERR error, Timeout or a
\* failed send), no later reply, timer expiry, reconnect or drain changes it.
C1_AtMostOneOutcome ==
  [][\A r \in Req : outcome[r] # "pending" => outcome'[r] = outcome[r]]_vars

\* A call that failed with Timeout and afterwards received a late OK reply.
C1_Witness ==
  \E r \in Req : phase[r] = "started" /\ outcome[r] = "timeout" /\ r \notin okL

\* A request that has had no reply and whose transport has been the open
\* current socket ever since it was dispatched.
Undisturbed(r) ==
  phase[r] = "started" /\ r \in replyL /\ con[r] = client /\ CanSend

\* C3: a request that gets no reply on a transport that stays open is
\* transmitted once by dispatch and once per retry tick, `attempts` times in
\* all; the expiry after the last retry stops the timer and rejects the call
\* with 'Timeout error', so the server has then received it exactly
\* `attempts` times.
C3_TimeoutAfterAttempts ==
  \A r \in Req : Undisturbed(r) =>
    IF r \in timer
    THEN outcome[r] = "pending" /\ sent[r] = Attempts - attempts[r]
    ELSE outcome[r] = "timeout" /\ sent[r] = Attempts

C3_Witness ==
  \E r \in Req : Undisturbed(r) /\ outcome[r] = "timeout" /\ sent[r] = Attempts

\* C4 as claimed: a request id is sent at most `attempts` times in total.
C4_Original == \A r \in Req : sent[r] <= Attempts

\* C4 amended: dispatch and the timeout agent together transmit a request
\* at most `attempts` times; every re-sling by a reconnect agent's open
\* handler is one transmission more.
C4_TimerTransmissionsBounded ==
  \A r \in Req : /\ sent[r] - reslung[r] + attempts[r] <= Attempts
                 /\ attempts[r] >= 0

\* A request transmitted more than `attempts` times thanks to a re-sling.
C4_Witness == \E r \in Req : reslung[r] > 0 /\ sent[r] > Attempts

NotReadySituations ==
  {"CLOSED_NO_TICK", "CLOSED_UNOPENED", "RECONNECTING", "DRAINING"}

\* C5: a dispatch call made while the client is not READY is never rejected
\* because of the disconnection (it waits for the next successful open).
C5_Original ==
  \A r \in Req : issuedIn[r] \in NotReadySituations => outcome[r] # "senderr"

\* C6 (safety part): a dispatch issued during the downtime after a close is
\* kept until the reconnect succeeds: it is never left waiting on an
\* `_opened` promise that nothing will fulfil.
C6_Original ==
  \A r \in Req : issuedIn[r] = "RECONNECTING" => phase[r] # "orphaned"

\* The step in which a reconnect agent's socket becomes this.client.
Transition == client' # client /\ client' # 0

\* C7 as claimed: every transport transition retransmits every pending id
\* exactly once.
C7_Original ==
  [][Transition => \A r \in pending : sent'[r] = sent[r] + 1]_vars

\* C7 amended: the open handler of a transition retransmits exactly once
\* every pending id that is not in the agent's exclude set (empty after a
\* close, the ids bound to the drained socket after a drain tick), and does
\* not retransmit the excluded ids.
C7_ReslingOncePerTransition ==
  [][Transition =>
       \A a \in Agent : agents[a].sock = client' =>
         \A r \in pending :
           sent'[r] = sent[r] + (IF r \in agents[a].exclude THEN 0 ELSE 1)]_vars

\* After a completed drain rotation: one pending request left on the old
\* socket and not retransmitted, another one re-slung on the new socket.
C7_Witness ==
  /\ CanSend
  /\ \E r \in pending : /\ con[r] \notin {0, client}
                        /\ r \in drainSnap[con[r]]
                        /\ ~unanswered[r][client]
  /\ \E r \in pending : reslung[r] > 0 /\ unanswered[r][client]

\* C8: the client closes the old socket of a drain cycle only when no
\* request that was transmitted on it is still in the pending table.
C8_Original ==
  \A s \in Sock : sock[s] = "closing" /\ closedBy[s] = "drain" =>
                    PendingOn(s) = {}

\* C9: a request in flight at a drain rotation keeps its way back: the
\* socket its pending entry is bound to is never retired by the drain while
\* the entry exists, its listeners stay registered while it is in a drain
\* snapshot, and an OK (ERR) reply handled on any socket, old or new,
\* settles a still unsettled call as resolved (rejected with the error).
C9_State ==
  /\ \A r \in pending : con[r] # 0 => closedBy[con[r]] # "drain"
  /\ \A s \in Sock : \A r \in drainSnap[s] :
       r \in pending /\ r \in replyL /\ r \in okL /\ r \in errL

C9_Step ==
  \A r \in Req :
    /\ (outcome[r] = "pending" /\ r \in okL /\ r \notin okL') => outcome'[r] = "ok"
    /\ (outcome[r] = "pending" /\ r \in errL /\ r \notin errL') => outcome'[r] = "err"

C10_Original == \A s \in hostClosed : closedBy[s] \in {"remote", "lost"}

\* A step that creates a reconnect agent (a call of attemptReconnect).
AgentStarted ==
  \E a \in Agent : agents[a].st = "unused" /\ agents'[a].st = "active"

\* C11: the 'close' event of a transport starts reconnection (one reconnect
\* agent) when its code is 1000 or 1006 and starts none when the code is
\* 1001; no other event of a transport starts one (the only other caller of
\* attemptReconnect is the drain tick).
C11_ReconnectOnCloseCode ==
  [][/\ \A s \in Sock, code \in CloseCodes :
          SockClose(s, code) =>
            IF code \in {SERVER_SHUTTING_OFF, CLOSE_ABNORMAL}
            THEN AgentStarted
            ELSE agents' = agents
     /\ AgentStarted =>
          \/ DrainTick
          \/ \E s \in Sock, code \in {SERVER_SHUTTING_OFF, CLOSE_ABNORMAL} :
               SockClose(s, code)]_vars

\* The server has closed the current transport and the close listener has
\* started a reconnect agent, which has not ticked yet; another transport
\* was closed with 1001 and started none.
C11_Witness ==
  /\ client # 0 /\ sock[client] = "closed" /\ closedBy[client] = "remote"
  /\ \E a \in Agent : agents[a].st = "active" /\ agents[a].sock = 0
  /\ \E s \in Sock : /\ s # client /\ sock[s] = "closed"
                      /\ closedBy[s] = "drain"
  /\ Cardinality({a \in Agent : agents[a].st # "unused"}) = 2

\* C12: after close(), whatever the lifecycle state it was called in, no
\* dispatch call made afterwards is transmitted or resolved.
C12_Original ==
  \A r \in Req : issuedIn[r] = "USERCLOSED" =>
                   sent[r] = 0 /\ outcome[r] # "ok"

\* C13: once close() has closed the transport, no dispatch call that was
\* pending when close() was called is still unsettled, and none of them
\* ends as a Timeout.
C13_Original ==
  \A r \in Req :
    ( /\ userClosed /\ phase[r] = "started"
      /\ issuedIn[r] # "USERCLOSED"
      /\ client # 0 /\ sock[client] = "closed"
      /\ closedBy[client] = "user" ) =>
    outcome[r] \notin {"pending", "timeout"}
\* =====================================================================
\* Properties of the server dispatcher
\* =====================================================================

\* C2: every accepted request gets exactly one reply: one 'reply' event,
\* followed by one send or one 'stale', and never both an OK and an ERR.
C2_Original ==
  \A q \in SReq : sreq[q].st = "done" =>
    /\ Len(rlog[q].ev) = 1
    /\ Len(rlog[q].sent) + Len(rlog[q].stale) = 1

\* C14: every reply the server emits ends in exactly one of {sent, stale}:
\* each 'reply' event is followed by one send (connection OPEN) or by one
\* 'stale' event (connection not OPEN).
C14_Original ==
  \A q \in SReq :
    Len(rlog[q].ev) = Len(rlog[q].sent) + Len(rlog[q].stale)

\* C15: a request whose type is neither a key of the schema nor the ping
\* type is answered at once with one ERR, and no middleware and no handler
\* is invoked for it.
C15_Original ==
  \A q \in SReq :
    sreq[q].type \in {"INHERITED", "UNKNOWN"} =>
      /\ sreq[q].st = "done"
      /\ rlog[q].ev = <<"ERR">>
      /\ invoked[q] = <<>>

\* The stages a chain of n middlewares calls when nothing short-circuits.
FullChain(n) == [i \in 1..(n + 1) |-> IF i <= n THEN i ELSE Handler]

IsPrefix(s, l) == Len(s) <= Len(l) /\ \A i \in 1..Len(s) : s[i] = l[i]

ChainTypes == {"APP", "INHERITED"}

\* C16: for a request that runs the chain, the stages are called in
\* registration order and the terminal handler once, after the last
\* middleware: what has been called is always a prefix of
\* <<1, ..., n, Handler>>, the whole of it unless a middleware settled
\* without calling next.  After a stage has settled nothing more is called,
\* each stage is handed the request its predecessor passed on, and the
\* result that reaches the top is what the reply carries.
C16_State ==
  \A q \in SReq :
    sreq[q].type \in ChainTypes =>
      /\ IsPrefix(invoked[q], FullChain(sreq[q].chain))
      /\ sreq[q].st \in {"chain", "wait"} => Len(invoked[q]) = sreq[q].pos
      /\ sreq[q].st \in {"unwind", "done"} => Len(invoked[q]) >= 1

C16_Step ==
  \A q \in SReq :
    /\ sreq[q].st \in {"unwind", "done"} => invoked'[q] = invoked[q]
    /\ (sreq[q].st = "chain" /\ sreq'[q].st = "wait") =>
         /\ sreq'[q].passed = sreq[q].passed
         /\ invoked'[q] = Append(invoked[q], FullChain(sreq[q].chain)[sreq[q].pos + 1])
    /\ (sreq[q].st = "unwind" /\ sreq'[q].st = "done"
        /\ sreq[q].type \in ChainTypes) =>
         rlog'[q].ev[1] = (IF sreq[q].ok THEN "OK" ELSE "ERR")

C16_ChainOrder == []C16_State /\ [][C16_Step]_vars

\* Two middlewares registered: one request went through both and the
\* handler, another was answered by the first middleware alone.
C16_Witness ==
  \E q, p \in SReq :
    /\ sreq[q].st = "done" /\ sreq[q].chain = 2
    /\ invoked[q] = <<1, 2, Handler>>
    /\ sreq[p].st = "done" /\ sreq[p].chain = 2
    /\ invoked[p] = <<1>> /\ rlog[p].ev = <<"OK">>

\* C17: a failure that reaches the top of the chain becomes exactly one ERR
\* reply (one 'reply' event, then one send or one 'stale'), and handling it
\* raises nothing.
C17_Original ==
  \A q \in SReq :
    (sreq[q].st = "done" /\ sreq[q].type \in ChainTypes /\ ~sreq[q].ok) =>
      /\ rlog[q].ev = <<"ERR">>
      /\ Len(rlog[q].sent) + Len(rlog[q].stale) = 1
      /\ ~rlog[q].threw

\* Occurrences of connection c in a list of targets.
Occ(c, l) == Cardinality({i \in 1..Len(l) : l[i] = c})

AllCons == [c \in 1..MaxCon |-> c]

RECURSIVE Addressed(_, _)
Addressed(c, log) ==
  IF log = <<>> THEN 0
  ELSE Occ(c, IF Head(log).kind = "broadcast" THEN AllCons ELSE Head(log).list)
       + Addressed(c, Tail(log))

\* C18: a push delivers one PUSH per target - every connected client for a
\* broadcast, once per element for a list, the connection itself for a
\* single scope; an OPEN target is sent the message, a target that is not
\* OPEN is sent nothing and causes one 'stale'.  While every connection is
\* OPEN each has received as many messages as it was addressed, so that
\* push() + push(conn0) + push([conn0, conn1]) gives 3 and 2.
C18_State ==
  (\A c \in SCon : conState[c] = "OPEN") =>
    /\ \A c \in SCon : /\ Len(plog[c].sent) = Addressed(c, pushLog)
                       /\ plog[c].stale = <<>>
    /\ pushLog = <<Broadcast, Single(1), List(<<1, 2>>)>> =>
         Len(plog[1].sent) = 3 /\ Len(plog[2].sent) = 2

C18_Step ==
  \A scope \in Scopes :
    Push(scope) =>
      \A c \in SCon :
        LET n == Occ(c, IF scope.kind = "broadcast"
                        THEN SelectSeq(AllCons, LAMBDA d : conState[d] # "CLOSED")
                        ELSE scope.list)
        IN IF conState[c] = "OPEN"
           THEN /\ Len(plog'[c].sent) = Len(plog[c].sent) + n
                /\ plog'[c].stale = plog[c].stale
           ELSE /\ Len(plog'[c].stale) = Len(plog[c].stale) + n
                /\ plog'[c].sent = plog[c].sent

C18_PushPerTarget == []C18_State /\ [][C18_Step]_vars

\* The scenario of the push test, and a list push to a closed connection.
C18_Witness ==
  /\ pushLog = <<Broadcast, Single(1), List(<<1, 2>>)>>
  /\ Len(plog[1].sent) = 3 /\ Len(plog[2].sent) = 2
  /\ \A c \in SCon : conState[c] = "OPEN"

\* =====================================================================
\* Properties of the pool
\* =====================================================================
InFlight == {t \in Task : task[t].st = "active"}

\* C19: the tasks in flight are the tracked ones and are at most
\* `concurrency`; the queued count stays between 0 and maxQueued.
C19_PoolBounds ==
  /\ active = InFlight
  /\ Cardinality(InFlight) <= Concurrency
  /\ queued >= 0 /\ queued <= MaxQueued

\* The pool is full, after some task has already settled.
C19_Witness ==
  /\ Cardinality(InFlight) = Concurrency
  /\ queued = MaxQueued
  /\ \E t \in Task : task[t].st \in {"ok", "err"}

Full == Cardinality(active) = Concurrency /\ queued = MaxQueued

\* C20: a run() call made when the pool is full is rejected with 'Queue size
\* exceeded', its factory is never called and the pool is left as it was;
\* no other run() is rejected with that error, neither at the call nor when
\* it is woken from the queue.
C20_State ==
  \A t \in Task : task[t].st = "rejected" => task[t].calls = 0

C20_Step ==
  \A t \in Task :
    /\ (task[t].st = "new" /\ task'[t].st # "new" /\ Full) =>
         /\ task'[t].st = "rejected"
         /\ active' = active /\ queued' = queued /\ waiters' = waiters
    /\ (task[t].st # "rejected" /\ task'[t].st = "rejected") =>
         task[t].st = "new" /\ Full
    /\ task[t].st = "rejected" => task'[t] = task[t]

C20_QueueFullOnlyWhenFull == []C20_State /\ [][C20_Step]_vars

\* A run() was rejected; later a slot was freed and a waiter admitted.
C20_Witness ==
  /\ \E t \in Task : task[t].st = "rejected"
  /\ \E t \in Task : task[t].st \in {"ok", "err"}
  /\ queued < MaxQueued
  /\ Cardinality(active) = Concurrency

\* A step in which the factory of task t is called.
Invoked(t) == task'[t].calls > task[t].calls

\* C21: queued tasks are admitted in the order of their run() calls, and a
\* run() call that arrives later is never admitted ahead of a task that is
\* already queued: a new call gets a slot only when nobody is waiting, and
\* a waiter's factory is called only when those of all waiters before it
\* have been.
C21_Original ==
  [][/\ \A t \in Task :
          (task[t].st = "new" /\ Invoked(t)) => waiters = <<>>
     /\ \A i, j \in 1..Len(waiters) :
          (i < j /\ Invoked(waiters[j])) => Invoked(waiters[i])]_vars

\* C22: when an in-flight task settles it leaves the in-flight set and
\* exactly one waiter, the first, leaves the queue and takes the freed
\* slot; the other waiters stay queued as they were.
C22_Original ==
  [][\A t \in Task :
       (task[t].st = "active" /\ task'[t].st # "active") =>
         /\ t \notin active'
         /\ IF waiters = <<>>
            THEN /\ active' = active \ {t}
                 /\ waiters' = <<>> /\ queued' = queued
            ELSE /\ active' = (active \ {t}) \cup {Head(waiters)}
                 /\ waiters' = Tail(waiters)
                 /\ queued' = queued - 1]_vars

\* C23: a dispatched id is in the pending table exactly while no terminal
\* outcome (OK, ERR, final timeout) has been delivered for it: a request
\* that has timed out is no longer pending, so no reconnect re-slings it.
C23_Original ==
  \A r \in Req : phase[r] = "started" =>
    (r \in pending <=> outcome[r] \notin {"ok", "err", "timeout"})

\* C24: a message whose type is none of OK, ERR, PUSH is ignored even when
\* its id is that of a pending request: the pending table, the timeout
\* timers and the outcome of every dispatch call stay as they were.
C24_Original ==
  [][\A r \in Req, s \in Sock :
       Reply(r, s, "OTHER", FALSE) =>
         pending' = pending /\ timer' = timer /\ outcome' = outcome]_vars

\* C29: a transport that is open but answers nothing is eventually
\* replaced: once every request made on it has timed out, the client
\* closes it or moves to another one.
C29_Original ==
  \A s \in Sock :
    (/\ client = s /\ sock[s] = "open"
     /\ \A r \in Req : outcome[r] = "timeout" /\ sent[r] > 0)
      ~> (client # s \/ sock[s] # "open")

\* C25: reconnecting succeeds also when establishing a connection takes
\* longer than reconnectInterval: a tick of the reconnect interval starts
\* a new attempt and leaves an attempt that is still connecting alone, so
\* that it can complete.
C25_Original ==
  [][\A a \in Agent :
       ReconTick(a) =>
         \A s \in Sock : sock[s] = "connecting" => sock'[s] = "connecting"]_vars

\* C26: a request of the ping type has the healthcheck as its only stage,
\* and on an open connection its reply is OK when the healthcheck resolved
\* and ERR when it rejected.
C26_Original ==
  \A q \in SReq :
    (/\ sreq[q].type = "PING" /\ sreq[q].st = "done"
     /\ conState[sreq[q].con] = "OPEN") =>
      /\ invoked[q] = <<Healthcheck>>
      /\ rlog[q].ev = <<IF sreq[q].ok THEN "OK" ELSE "ERR">>

\* C27: a frame that is not JSON is reported through one 'error' event and
\* dropped: no exception escapes the listener and every connection stays
\* as it was, so that later frames are served.
C27_Original ==
  [][\A c \in SCon, handled \in BOOLEAN :
       BadFrame(c, handled) =>
         /\ errorEv' = errorEv + 1
         /\ uncaught' = uncaught
         /\ conState' = conState]_vars

\* C28: the re-sling at a reconnect rewrites the transport binding: in
\* every READY state a pending entry whose request has been sent on the
\* current transport is bound to the current transport.
C28_Original ==
  Situation = "READY" =>
    \A r \in pending : unanswered[r][client] => con[r] = client

\* C30: the chain of a request is fixed when its handling begins: it holds
\* the middlewares registered at that moment, a use() call made while the
\* request is in flight adds no stage to it, and every request received
\* after the call gets the longer chain.
C30_State ==
  \A q \in SReq :
    /\ sreq[q].chain <= nMid
    /\ \A i \in 1..Len(invoked[q]) :
         invoked[q][i] \in 1..MaxMid => invoked[q][i] <= sreq[q].chain
    /\ (sreq[q].st = "wait" /\ sreq[q].type # "PING") =>
         Len(invoked[q]) <= sreq[q].chain + 1

C30_Step ==
  \A q \in SReq :
    /\ sreq[q].st # "none" => sreq'[q].chain = sreq[q].chain
    /\ (sreq[q].st = "none" /\ TypeInApp(sreq'[q].type)) =>
         sreq'[q].chain = nMid

C30_ChainFixedAtReceipt == []C30_State /\ [][C30_Step]_vars

\* A request received before a use() call has reached its handler through
\* its shorter chain, and a request received after the call has the
\* longer one.
C30_Witness ==
  \E q, p \in SReq :
    /\ sreq[q].st = "wait" /\ sreq[q].chain < nMid
    /\ invoked[q] # <<>> /\ invoked[q][Len(invoked[q])] = Handler
    /\ Len(invoked[q]) = sreq[q].chain + 1
    /\ TypeInApp(sreq[p].type) /\ sreq[p].chain = nMid
    /\ Len(invoked[p]) = nMid + 1

\* C31: a dispatch call rejected because its first transmission failed
\* leaves no trace: no pending entry, no running timeout agent, no reply
\* listeners, and the request is never transmitted afterwards.
C31_Original ==
  \A r \in Req : outcome[r] = "senderr" =>
    /\ r \notin pending
    /\ r \notin timer
    /\ r \notin replyL \cup okL \cup errL
    /\ sent[r] = 0

\* Reconnect agents whose interval is running.
ActiveAgents == {a \in Agent : agents[a].st = "active"}

\* C32: at most one reconnect agent is active at any time: the close of
\* the old socket of a drain rotation, whatever its code, starts no agent
\* beside the one the rotation is running.
C32_Original == Cardinality(ActiveAgents) <= 1

\* C33 as claimed: a call never fails with Timeout after fewer than
\* `attempts` transmissions.
C33_Original == \A r \in Req : outcome[r] = "timeout" => sent[r] >= Attempts

\* C33 amended: `attempts` counts expiries, not transmissions.  Every retry
\* tick consumes one attempt and transmits the request only if the current
\* transport is open at that moment (a failed sling is swallowed); a call
\* that has failed with Timeout has used up every attempt and has been
\* transmitted at least once, by dispatch.
C33_State ==
  \A r \in Req : outcome[r] = "timeout" =>
    r \notin timer /\ attempts[r] = 0 /\ sent[r] >= 1

C33_Step ==
  \A r \in Req :
    (r \in timer /\ r \in timer' /\ attempts'[r] = attempts[r] - 1) =>
      sent'[r] - reslung'[r] =
        sent[r] - reslung[r] +
          (IF client # 0 /\ sock[client] = "open" THEN 1 ELSE 0)

C33_AttemptsCountExpiries == []C33_State /\ [][C33_Step]_vars

\* A call that failed with Timeout after fewer than `attempts`
\* transmissions: a retry tick fired while the transport was not open.
C33_Witness ==
  \E r \in Req : outcome[r] = "timeout" /\ sent[r] < Attempts

\* C34: close() is final: once it has been called no reconnect attempt is
\* made ('reconnecting') and no reconnect succeeds ('reconnected'), in
\* whatever lifecycle state it was called.
C34_Original ==
  [][userClosed =>
       \A a \in Agent : ~ReconTick(a) /\ ~ReconOpen(a)]_vars

\* C35: a PUSH message only notifies the listeners of its event name:
\* whatever the name, it removes no pending entry, cancels no timer,
\* settles no dispatch call, does not fulfil the `_opened` latch and starts
\* no dispatch body.
C35_Original ==
  [][\A s \in Sock, ev \in PushEvents, r \in Req :
       PushMessage(s, ev, r) =>
         /\ pending' = pending /\ timer' = timer
         /\ outcome' = outcome
         /\ opened' = opened /\ phase' = phase]_vars

\* C36: 'PING-TIMEOUT' is emitted only when the ping is rejected by its
\* own timer, never after the ping was already resolved or rejected by a
\* reply.
C36_Original == \A p \in Ping : pingEv[p] \notin {"ok", "err"}

\* C37: every queued run() is admitted in the end and its promise settles
\* with the outcome of its own factory: no task leaves the queue without
\* being admitted, left with a promise that nothing can settle, and no
\* task's promise settles with the outcome of another task's factory.
C37_Original ==
  \A t \in Task : task[t].st \notin {"hung", "foreign"}


====
